---------------------------- MODULE Spec2Model ----------------------------
(***************************************************************************)
(* Model of src/sdl3/gpu/pass.rs: the typed wrapper over the SDL3 GPU      *)
(* command-recording API (CommandBuffer, RenderPass, CopyPass,             *)
(* ComputePass) and its builder value objects (DepthStencilTargetInfo,     *)
(* ColorTargetInfo, BlitInfo).                                             *)
(*                                                                         *)
(* Every wrapper method forwards to one extern "C" function.  The model    *)
(* keeps the sequence of wrapper invocations (calls) and the sequence of   *)
(* native calls they issue (log), so that what reaches the driver can be   *)
(* compared with what the caller asked for.                                *)
(***************************************************************************)
EXTENDS Integers, Sequences, FiniteSets

VARIABLES
    alive,      \* the CommandBuffer value is still owned by the caller (not moved)
    inner,      \* CommandBuffer.inner, the native handle
    log,        \* native calls issued so far, in order
    calls,      \* wrapper invocations made so far, in order
    ret,        \* what the last wrapper invocation returned
    lastError,  \* the driver's last error string, read by get_error()
    kind,       \* which builder value object is being assembled
    b,          \* the builder value object (its inner native struct)
    chain       \* the setters applied to b so far, in order

vars == <<alive, inner, log, calls, ret, lastError, kind, b, chain>>

cmdVars == <<alive, inner, log, calls, ret, lastError>>
builderVars == <<kind, b, chain>>

-----------------------------------------------------------------------------
(* Bounds of the model. *)

MaxLog == 3
MaxLogAll == 2
MaxChain == 3

-----------------------------------------------------------------------------
(* Machine integers.  A usize is kept as two 32-bit words, hi * 2^32 + lo,  *)
(* so that `as u32` is what the compiler does: it keeps the low word.       *)

Usize(h, l) == [hi |-> h, lo |-> l]

AsU32(v) == v.lo

FitsU32(v) == v.hi = 0

UsizeSamples == {Usize(0, 0), Usize(0, 2), Usize(1, 2)}

-----------------------------------------------------------------------------
(* Native handles. *)

NULL == "null"

RenderPassHandle == "renderpass0"

CopyPassHandle == "copypass0"

ComputePassHandle == "computepass0"

Windows == {"window0"}

SwapchainTextures == {"swapchain_tex0"}

ErrMsgs == {"device lost", "invalid window"}

(* size_of::<T>() of the types T a uniform block is pushed as.  The last    *)
(* one is a type larger than 4 GiB, [u8; 2^32 + 64].                        *)
SizeOf(T) ==
    CASE T = "f32" -> Usize(0, 4)
      [] T = "Matrix4x4" -> Usize(0, 64)
      [] T = "HugeArray" -> Usize(1, 64)

(* A slice &[T]: a pointer and a length. *)
Slice(ptr, len) == [ptr |-> ptr, len |-> len]

NativeCall(fn, h, args) == [fn |-> fn, h |-> h, args |-> args]

Invocation(op, raw, args, env) == [op |-> op, raw |-> raw, args |-> args, env |-> env]

NoEnv == [ok |-> TRUE]

Unit == [kind |-> "unit"]

Ok(v) == [kind |-> "Ok", val |-> v]

Err(msg) == [kind |-> "Err", val |-> msg]

CanRecord == Len(log) < MaxLog

-----------------------------------------------------------------------------
(* f32 arithmetic.  A finite non-negative f32 is m * 2^e with m = 0 or      *)
(* 2^23 <= m < 2^24.  Division is IEEE 754 round-to-nearest, ties to even,  *)
(* done by binary long division so that no intermediate exceeds 2^25.       *)

F32MantBits == 24

RECURSIVE Pow2(_)
Pow2(n) == IF n = 0 THEN 1 ELSE 2 * Pow2(n - 1)

(* 2^23 and 2^24: the range of a normalised mantissa. *)
F32MantMin == Pow2(F32MantBits - 1)

F32MantLim == Pow2(F32MantBits)

F32(m, e) == [m |-> m, e |-> e]

F32Zero == F32(0, 0)

RECURSIVE F32Normalize(_, _)
F32Normalize(m, e) ==
    IF m = 0 THEN F32Zero
    ELSE IF m >= F32MantMin THEN F32(m, e)
    ELSE F32Normalize(2 * m, e - 1)

(* `c as f32` for a u8: exact. *)
U8AsF32(c) == F32Normalize(c, 0)

RECURSIVE F32DivLoop(_, _, _, _)
F32DivLoop(q, r, d, s) ==
    IF q >= F32MantMin THEN [q |-> q, r |-> r, s |-> s]
    ELSE LET bit == IF 2 * r >= d THEN 1 ELSE 0
         IN  F32DivLoop(2 * q + bit, 2 * r - bit * d, d, s + 1)

F32Div_truncating(x, y) ==
    IF x.m = 0 THEN F32Zero
    ELSE LET t == F32DivLoop(x.m \div y.m, x.m % y.m, y.m, 0)
         IN  F32(t.q, x.e - y.e - t.s)

F32Div(x, y) ==
    IF x.m = 0 THEN F32Zero
    ELSE LET t == F32DivLoop(x.m \div y.m, x.m % y.m, y.m, 0)
             up == \/ 2 * t.r > y.m
                   \/ (2 * t.r = y.m /\ t.q % 2 = 1)
             m1 == IF up THEN t.q + 1 ELSE t.q
             e1 == x.e - y.e - t.s
         IN  IF m1 = F32MantLim THEN F32(m1 \div 2, e1 + 1) ELSE F32(m1, e1)

(* The literal 255.0 of with_clear_color. *)
F32_255 == U8AsF32(255)

(* (c as f32) / 255.0 for each u8 c, computed once. *)
U8Over255 == [c \in 0 .. 255 |-> F32Div(U8AsF32(c), F32_255)]

-----------------------------------------------------------------------------
(* Inputs of the builders. *)

Textures == {"tex0", "tex1"}

(* The wrapper enums LoadOp, StoreOp and Filter, cast to the native         *)
(* integer encoding by `value as i32` / transmute(value as u32).            *)
Filters == {"Nearest", "Linear"}

LoadOpValue(v) == CASE v = "Load" -> 0 [] v = "Clear" -> 1 [] v = "DontCare" -> 2

StoreOpValue(v) ==
    CASE v = "Store" -> 0 [] v = "DontCare" -> 1
      [] v = "Resolve" -> 2 [] v = "ResolveAndStore" -> 3

FilterValue(v) == CASE v = "Nearest" -> 0 [] v = "Linear" -> 1

Color(r, g, b_, a) == [r |-> r, g |-> g, b |-> b_, a |-> a]

U8 == 0 .. 255

(* Every value of every channel, the other channels held at values that     *)
(* tell them apart.                                                         *)
ChannelColors ==
    {Color(c, 1, 2, 3) : c \in U8} \cup {Color(1, c, 2, 3) : c \in U8}
    \cup {Color(1, 2, c, 3) : c \in U8} \cup {Color(1, 2, 3, c) : c \in U8}

SampleColors == {Color(0, 51, 128, 255), Color(255, 1, 2, 3)}

SampleDepths == {F32(F32MantMin, 1 - F32MantBits), F32(F32MantMin, -F32MantBits)}

SampleLoadOps == {"Clear", "DontCare"}

SampleStoreOps == {"DontCare", "ResolveAndStore"}

SampleRegions == {<<0, 0, 0, 1, 1>>, <<1, 2, 3, 4, 5>>}

FColorZero == [r |-> F32Zero, g |-> F32Zero, b |-> F32Zero, a |-> F32Zero]

-----------------------------------------------------------------------------
(* DepthStencilTargetInfo: #[derive(Default)] over the native struct. *)

DepthStencilTargetInfo_new ==
    [texture |-> NULL, clear_depth |-> F32Zero, load_op |-> 0, store_op |-> 0,
     stencil_load_op |-> 0, stencil_store_op |-> 0, cycle |-> FALSE,
     clear_stencil |-> 0]

DepthStencilTargetInfo_with_texture(self, texture) ==
    [self EXCEPT !.texture = texture]

DepthStencilTargetInfo_with_clear_depth(self, clear_depth) ==
    [self EXCEPT !.clear_depth = clear_depth]

DepthStencilTargetInfo_with_load_op(self, value) ==
    [self EXCEPT !.load_op = LoadOpValue(value)]

DepthStencilTargetInfo_with_store_op(self, value) ==
    [self EXCEPT !.store_op = StoreOpValue(value)]

DepthStencilTargetInfo_with_stencil_load_op_shared(self, value) ==
    [self EXCEPT !.stencil_load_op = LoadOpValue(value),
                 !.load_op = LoadOpValue(value)]

DepthStencilTargetInfo_with_stencil_load_op(self, value) ==
    [self EXCEPT !.stencil_load_op = LoadOpValue(value)]

DepthStencilTargetInfo_with_stencil_store_op(self, value) ==
    [self EXCEPT !.stencil_store_op = StoreOpValue(value)]

DepthStencilTargetInfo_with_cycle(self, cycle) ==
    [self EXCEPT !.cycle = cycle]

DepthStencilTargetInfo_with_clear_stencil(self, clear_stencil) ==
    [self EXCEPT !.clear_stencil = clear_stencil]

-----------------------------------------------------------------------------
(* ColorTargetInfo *)

ColorTargetInfo_default ==
    [texture |-> NULL, load_op |-> 0, store_op |-> 0, clear_color |-> FColorZero]

ColorTargetInfo_with_texture(self, texture) ==
    [self EXCEPT !.texture = texture]

ColorTargetInfo_with_load_op(self, value) ==
    [self EXCEPT !.load_op = LoadOpValue(value)]

ColorTargetInfo_with_store_op(self, value) ==
    [self EXCEPT !.store_op = StoreOpValue(value)]

ColorTargetInfo_with_clear_color(self, value) ==
    [self EXCEPT !.clear_color =
        [r |-> U8Over255[value.r],
         g |-> U8Over255[value.g],
         b |-> U8Over255[value.b],
         a |-> U8Over255[value.a]]]

-----------------------------------------------------------------------------
(* BlitInfo *)

BlitRegion_default ==
    [texture |-> NULL, mip_level |-> 0, layer_or_depth_plane |-> 0,
     x |-> 0, y |-> 0, w |-> 0, h |-> 0]

BlitInfo_default ==
    [source |-> BlitRegion_default, destination |-> BlitRegion_default,
     load_op |-> 0, clear_color |-> FColorZero, filter |-> 0, cycle |-> FALSE]

BlitInfo_with_source_texture(self, texture) ==
    [self EXCEPT !.source.texture = texture]

BlitInfo_with_source_mip(self, mip_level) ==
    [self EXCEPT !.source.mip_level = mip_level]

BlitInfo_with_source_region(self, layer_or_depth, x, y, width, height) ==
    [self EXCEPT !.source.layer_or_depth_plane = layer_or_depth,
                 !.source.x = x, !.source.y = y,
                 !.source.w = width, !.source.h = height]

BlitInfo_with_destination_texture(self, texture) ==
    [self EXCEPT !.destination.texture = texture]

BlitInfo_with_destination_mip(self, mip_level) ==
    [self EXCEPT !.destination.mip_level = mip_level]

BlitInfo_with_destination_region(self, layer_or_depth, x, y, width, height) ==
    [self EXCEPT !.destination.layer_or_depth_plane = layer_or_depth,
                 !.destination.x = x, !.destination.y = y,
                 !.destination.w = width, !.destination.h = height]

BlitInfo_with_load_op(self, load_op) ==
    [self EXCEPT !.load_op = LoadOpValue(load_op)]

BlitInfo_with_clear_color(self, clear_color) ==
    [self EXCEPT !.clear_color =
        [r |-> U8Over255[clear_color.r],
         g |-> U8Over255[clear_color.g],
         b |-> U8Over255[clear_color.b],
         a |-> U8Over255[clear_color.a]]]

BlitInfo_with_filter(self, filter) ==
    [self EXCEPT !.filter = FilterValue(filter)]

BlitInfo_with_cycle(self, cycle) ==
    [self EXCEPT !.cycle = cycle]

-----------------------------------------------------------------------------
(* Builder chains: each setter takes the builder by value and returns it.   *)

Kinds == {"DepthStencilTargetInfo", "ColorTargetInfo", "BlitInfo"}

Default(k) ==
    CASE k = "DepthStencilTargetInfo" -> DepthStencilTargetInfo_new
      [] k = "ColorTargetInfo" -> ColorTargetInfo_default
      [] k = "BlitInfo" -> BlitInfo_default

InitCmd ==
    /\ alive = TRUE
    /\ inner = "cmdbuf0"
    /\ log = <<>>
    /\ calls = <<>>
    /\ ret = [kind |-> "none"]
    /\ lastError = ""

Setter(n, name, args, nb) ==
    /\ Len(chain) < n
    /\ b' = nb
    /\ chain' = Append(chain, [name |-> name, args |-> args])
    /\ UNCHANGED <<kind, cmdVars>>

Call_DepthStencilTargetInfo_with_texture ==
    \E texture \in Textures :
        /\ kind = "DepthStencilTargetInfo"
        /\ Setter(MaxChain, "with_texture", <<texture>>,
                  DepthStencilTargetInfo_with_texture(b, texture))

Call_DepthStencilTargetInfo_with_clear_depth ==
    \E clear_depth \in SampleDepths :
        /\ kind = "DepthStencilTargetInfo"
        /\ Setter(MaxChain, "with_clear_depth", <<clear_depth>>,
                  DepthStencilTargetInfo_with_clear_depth(b, clear_depth))

Call_DepthStencilTargetInfo_with_load_op ==
    \E value \in SampleLoadOps :
        /\ kind = "DepthStencilTargetInfo"
        /\ Setter(MaxChain, "with_load_op", <<value>>,
                  DepthStencilTargetInfo_with_load_op(b, value))

Call_DepthStencilTargetInfo_with_store_op ==
    \E value \in SampleStoreOps :
        /\ kind = "DepthStencilTargetInfo"
        /\ Setter(MaxChain, "with_store_op", <<value>>,
                  DepthStencilTargetInfo_with_store_op(b, value))

Call_DepthStencilTargetInfo_with_stencil_load_op ==
    \E value \in SampleLoadOps :
        /\ kind = "DepthStencilTargetInfo"
        /\ Setter(MaxChain, "with_stencil_load_op", <<value>>,
                  DepthStencilTargetInfo_with_stencil_load_op(b, value))

Call_DepthStencilTargetInfo_with_stencil_store_op ==
    \E value \in SampleStoreOps :
        /\ kind = "DepthStencilTargetInfo"
        /\ Setter(MaxChain, "with_stencil_store_op", <<value>>,
                  DepthStencilTargetInfo_with_stencil_store_op(b, value))

Call_DepthStencilTargetInfo_with_cycle ==
    \E cycle \in BOOLEAN :
        /\ kind = "DepthStencilTargetInfo"
        /\ Setter(MaxChain, "with_cycle", <<cycle>>,
                  DepthStencilTargetInfo_with_cycle(b, cycle))

Call_DepthStencilTargetInfo_with_clear_stencil ==
    \E clear_stencil \in {7, 255} :
        /\ kind = "DepthStencilTargetInfo"
        /\ Setter(MaxChain, "with_clear_stencil", <<clear_stencil>>,
                  DepthStencilTargetInfo_with_clear_stencil(b, clear_stencil))

Call_ColorTargetInfo_with_texture ==
    \E texture \in Textures :
        /\ kind = "ColorTargetInfo"
        /\ Setter(MaxChain, "with_texture", <<texture>>,
                  ColorTargetInfo_with_texture(b, texture))

Call_ColorTargetInfo_with_load_op ==
    \E value \in SampleLoadOps :
        /\ kind = "ColorTargetInfo"
        /\ Setter(MaxChain, "with_load_op", <<value>>,
                  ColorTargetInfo_with_load_op(b, value))

Call_ColorTargetInfo_with_store_op ==
    \E value \in SampleStoreOps :
        /\ kind = "ColorTargetInfo"
        /\ Setter(MaxChain, "with_store_op", <<value>>,
                  ColorTargetInfo_with_store_op(b, value))

Call_ColorTargetInfo_with_clear_color(colors, n) ==
    \E value \in colors :
        /\ kind = "ColorTargetInfo"
        /\ Setter(n, "with_clear_color", <<value>>,
                  ColorTargetInfo_with_clear_color(b, value))

Call_BlitInfo_with_source_texture ==
    \E texture \in Textures :
        /\ kind = "BlitInfo"
        /\ Setter(MaxChain, "with_source_texture", <<texture>>,
                  BlitInfo_with_source_texture(b, texture))

Call_BlitInfo_with_source_mip ==
    \E mip_level \in {1, 2} :
        /\ kind = "BlitInfo"
        /\ Setter(MaxChain, "with_source_mip", <<mip_level>>,
                  BlitInfo_with_source_mip(b, mip_level))

Call_BlitInfo_with_source_region ==
    \E r \in SampleRegions :
        /\ kind = "BlitInfo"
        /\ Setter(MaxChain, "with_source_region", r,
                  BlitInfo_with_source_region(b, r[1], r[2], r[3], r[4], r[5]))

Call_BlitInfo_with_destination_texture ==
    \E texture \in Textures :
        /\ kind = "BlitInfo"
        /\ Setter(MaxChain, "with_destination_texture", <<texture>>,
                  BlitInfo_with_destination_texture(b, texture))

Call_BlitInfo_with_destination_mip ==
    \E mip_level \in {1, 2} :
        /\ kind = "BlitInfo"
        /\ Setter(MaxChain, "with_destination_mip", <<mip_level>>,
                  BlitInfo_with_destination_mip(b, mip_level))

Call_BlitInfo_with_destination_region ==
    \E r \in SampleRegions :
        /\ kind = "BlitInfo"
        /\ Setter(MaxChain, "with_destination_region", r,
                  BlitInfo_with_destination_region(b, r[1], r[2], r[3], r[4], r[5]))

Call_BlitInfo_with_load_op ==
    \E load_op \in SampleLoadOps :
        /\ kind = "BlitInfo"
        /\ Setter(MaxChain, "with_load_op", <<load_op>>,
                  BlitInfo_with_load_op(b, load_op))

Call_BlitInfo_with_clear_color(colors, n) ==
    \E clear_color \in colors :
        /\ kind = "BlitInfo"
        /\ Setter(n, "with_clear_color", <<clear_color>>,
                  BlitInfo_with_clear_color(b, clear_color))

Call_BlitInfo_with_filter ==
    \E filter \in Filters :
        /\ kind = "BlitInfo"
        /\ Setter(MaxChain, "with_filter", <<filter>>,
                  BlitInfo_with_filter(b, filter))

Call_BlitInfo_with_cycle ==
    \E cycle \in BOOLEAN :
        /\ kind = "BlitInfo"
        /\ Setter(MaxChain, "with_cycle", <<cycle>>,
                  BlitInfo_with_cycle(b, cycle))

InitBuilder ==
    /\ InitCmd
    /\ kind \in Kinds
    /\ b = Default(kind)
    /\ chain = <<>>

NextBuilder ==
    \/ Call_DepthStencilTargetInfo_with_texture
    \/ Call_DepthStencilTargetInfo_with_clear_depth
    \/ Call_DepthStencilTargetInfo_with_load_op
    \/ Call_DepthStencilTargetInfo_with_store_op
    \/ Call_DepthStencilTargetInfo_with_stencil_load_op
    \/ Call_DepthStencilTargetInfo_with_stencil_store_op
    \/ Call_DepthStencilTargetInfo_with_cycle
    \/ Call_DepthStencilTargetInfo_with_clear_stencil
    \/ Call_ColorTargetInfo_with_texture
    \/ Call_ColorTargetInfo_with_load_op
    \/ Call_ColorTargetInfo_with_store_op
    \/ Call_ColorTargetInfo_with_clear_color(SampleColors, MaxChain)
    \/ Call_BlitInfo_with_source_texture
    \/ Call_BlitInfo_with_source_mip
    \/ Call_BlitInfo_with_source_region
    \/ Call_BlitInfo_with_destination_texture
    \/ Call_BlitInfo_with_destination_mip
    \/ Call_BlitInfo_with_destination_region
    \/ Call_BlitInfo_with_load_op
    \/ Call_BlitInfo_with_clear_color(SampleColors, MaxChain)
    \/ Call_BlitInfo_with_filter
    \/ Call_BlitInfo_with_cycle

SpecBuilder == InitBuilder /\ [][NextBuilder]_vars

(* with_clear_color alone, applied to a fresh builder, over every value of  *)
(* every channel.                                                           *)
NextColor ==
    \/ Call_ColorTargetInfo_with_clear_color(ChannelColors, 1)
    \/ Call_BlitInfo_with_clear_color(ChannelColors, 1)

SpecColor == InitBuilder /\ [][NextColor]_vars

-----------------------------------------------------------------------------
(* Replaying a chain of setters on a builder value. *)

Apply(k, s, st) ==
    LET n == st.name
        a == st.args
    IN  CASE k = "DepthStencilTargetInfo" ->
               (CASE n = "with_texture" -> DepthStencilTargetInfo_with_texture(s, a[1])
                  [] n = "with_clear_depth" -> DepthStencilTargetInfo_with_clear_depth(s, a[1])
                  [] n = "with_load_op" -> DepthStencilTargetInfo_with_load_op(s, a[1])
                  [] n = "with_store_op" -> DepthStencilTargetInfo_with_store_op(s, a[1])
                  [] n = "with_stencil_load_op" -> DepthStencilTargetInfo_with_stencil_load_op(s, a[1])
                  [] n = "with_stencil_store_op" -> DepthStencilTargetInfo_with_stencil_store_op(s, a[1])
                  [] n = "with_cycle" -> DepthStencilTargetInfo_with_cycle(s, a[1])
                  [] n = "with_clear_stencil" -> DepthStencilTargetInfo_with_clear_stencil(s, a[1]))
          [] k = "ColorTargetInfo" ->
               (CASE n = "with_texture" -> ColorTargetInfo_with_texture(s, a[1])
                  [] n = "with_load_op" -> ColorTargetInfo_with_load_op(s, a[1])
                  [] n = "with_store_op" -> ColorTargetInfo_with_store_op(s, a[1])
                  [] n = "with_clear_color" -> ColorTargetInfo_with_clear_color(s, a[1]))
          [] k = "BlitInfo" ->
               (CASE n = "with_source_texture" -> BlitInfo_with_source_texture(s, a[1])
                  [] n = "with_source_mip" -> BlitInfo_with_source_mip(s, a[1])
                  [] n = "with_source_region" ->
                       BlitInfo_with_source_region(s, a[1], a[2], a[3], a[4], a[5])
                  [] n = "with_destination_texture" -> BlitInfo_with_destination_texture(s, a[1])
                  [] n = "with_destination_mip" -> BlitInfo_with_destination_mip(s, a[1])
                  [] n = "with_destination_region" ->
                       BlitInfo_with_destination_region(s, a[1], a[2], a[3], a[4], a[5])
                  [] n = "with_load_op" -> BlitInfo_with_load_op(s, a[1])
                  [] n = "with_clear_color" -> BlitInfo_with_clear_color(s, a[1])
                  [] n = "with_filter" -> BlitInfo_with_filter(s, a[1])
                  [] n = "with_cycle" -> BlitInfo_with_cycle(s, a[1]))

RECURSIVE Replay(_, _, _)
Replay(k, s, sts) ==
    IF sts = <<>> THEN s ELSE Replay(k, Apply(k, s, Head(sts)), Tail(sts))

(* The fields of a builder value, by path, and the fields each setter names. *)
FieldPaths(k) ==
    CASE k = "DepthStencilTargetInfo" ->
               {"texture", "clear_depth", "load_op", "store_op", "stencil_load_op",
                "stencil_store_op", "cycle", "clear_stencil"}
      [] k = "ColorTargetInfo" -> {"texture", "load_op", "store_op", "clear_color"}
      [] k = "BlitInfo" ->
               {"source.texture", "source.mip_level", "source.region",
                "destination.texture", "destination.mip_level", "destination.region",
                "load_op", "clear_color", "filter", "cycle"}

RegionOf(r) == <<r.layer_or_depth_plane, r.x, r.y, r.w, r.h>>

Field(k, s, f) ==
    IF k = "BlitInfo"
    THEN CASE f = "source.texture" -> s.source.texture
           [] f = "source.mip_level" -> s.source.mip_level
           [] f = "source.region" -> RegionOf(s.source)
           [] f = "destination.texture" -> s.destination.texture
           [] f = "destination.mip_level" -> s.destination.mip_level
           [] f = "destination.region" -> RegionOf(s.destination)
           [] OTHER -> s[f]
    ELSE s[f]

Named(k, n) ==
    IF k = "BlitInfo"
    THEN CASE n = "with_source_texture" -> "source.texture"
           [] n = "with_source_mip" -> "source.mip_level"
           [] n = "with_source_region" -> "source.region"
           [] n = "with_destination_texture" -> "destination.texture"
           [] n = "with_destination_mip" -> "destination.mip_level"
           [] n = "with_destination_region" -> "destination.region"
           [] n = "with_load_op" -> "load_op"
           [] n = "with_clear_color" -> "clear_color"
           [] n = "with_filter" -> "filter"
           [] n = "with_cycle" -> "cycle"
    ELSE CASE n = "with_texture" -> "texture"
           [] n = "with_clear_depth" -> "clear_depth"
           [] n = "with_load_op" -> "load_op"
           [] n = "with_store_op" -> "store_op"
           [] n = "with_stencil_load_op" -> "stencil_load_op"
           [] n = "with_stencil_store_op" -> "stencil_store_op"
           [] n = "with_cycle" -> "cycle"
           [] n = "with_clear_stencil" -> "clear_stencil"
           [] n = "with_clear_color" -> "clear_color"

ChainPrefix(n) == SubSeq(chain, 1, n)

(* C8: builder chains are order-independent per distinct field and          *)
(* last-write-wins: whenever the last three setters applied are A, B, A     *)
(* with A and B setters of distinct fields, the builder equals the one      *)
(* obtained by applying only B and the final A to the same starting value   *)
(* (the zero-initialised default when the chain has just these three), and  *)
(* the last setter applied has left every field it does not name as it was. *)
C8_OrderIndependentLastWriteWins ==
    LET n == Len(chain)
    IN  /\ n >= 3 /\ chain[n - 2].name = chain[n].name /\ chain[n - 1].name # chain[n].name
           => b = Replay(kind, Replay(kind, Default(kind), ChainPrefix(n - 3)),
                         <<chain[n - 1], chain[n]>>)
        /\ n >= 1
           => \A f \in FieldPaths(kind) \ {Named(kind, chain[n].name)} :
                  Field(kind, b, f)
                    = Field(kind, Replay(kind, Default(kind), ChainPrefix(n - 1)), f)

(* A was set, then B, then A again to another value, from the default. *)
C8_Witness ==
    /\ Len(chain) = 3
    /\ chain[1].name = chain[3].name
    /\ chain[2].name # chain[3].name
    /\ chain[1].args # chain[3].args
    /\ kind = "DepthStencilTargetInfo"
    /\ chain[3].name = "with_stencil_load_op"
    /\ chain[2].name = "with_load_op"

-----------------------------------------------------------------------------
(* v is the f32 nearest to c / 255: with v = m * 2^e and k = -e,            *)
(* |255 * m - c * 2^k| <= 255 / 2, computed on the two 12-bit halves of m.  *)
NearestF32ToOver255(v, c) ==
    IF c = 0 THEN v = F32Zero
    ELSE LET k == -v.e
             mh == v.m \div 4096
             ml == v.m % 4096
             A == 255 * mh - c * Pow2(k - 12)
         IN  /\ v.m >= F32MantMin /\ v.m < F32MantLim
             /\ k >= F32MantBits - 1 /\ k < 32
             /\ A >= -256 /\ A <= 1
             /\ LET D == A * 4096 + 255 * ml
                IN  2 * D <= 255 /\ -2 * D <= 255

F32One == F32(F32MantMin, 1 - F32MantBits)

InUnitInterval(v) ==
    \/ v = F32Zero
    \/ v = F32One
    \/ (v.m >= F32MantMin /\ v.m < F32MantLim /\ v.e < 1 - F32MantBits)

NormalizedChannel(v, c) ==
    /\ NearestF32ToOver255(v, c)
    /\ InUnitInterval(v)
    /\ (c = 0 => v = F32Zero)
    /\ (c = 255 => v = F32One)

(* C9: after with_clear_color(value) on a ColorTargetInfo or a BlitInfo,    *)
(* each clear_color component is the f32 quotient of its own channel by     *)
(* 255.0 (the f32 nearest to c/255), lies in [0,1], and is 0.0 for 0 and    *)
(* 1.0 for 255.                                                             *)
C9_ClearColorNormalized ==
    (chain # <<>> /\ chain[Len(chain)].name = "with_clear_color")
        => LET value == chain[Len(chain)].args[1]
           IN  /\ NormalizedChannel(b.clear_color.r, value.r)
               /\ NormalizedChannel(b.clear_color.g, value.g)
               /\ NormalizedChannel(b.clear_color.b, value.b)
               /\ NormalizedChannel(b.clear_color.a, value.a)

C9_Witness ==
    /\ chain # <<>>
    /\ kind = "ColorTargetInfo"
    /\ chain[1].args[1] = Color(1, 2, 200, 3)
    /\ b.clear_color.b = F32(13158601, -24)

-----------------------------------------------------------------------------
(* CommandBuffer.  A method taking &self or &mut self needs the value to    *)
(* be owned by the caller (alive); submit(self) moves it.                   *)

CommandBuffer_raw == inner

(* One wrapper invocation issuing one native call. *)
Issue(op, raw, args, env, ncall, result) ==
    /\ CanRecord
    /\ log' = Append(log, ncall)
    /\ calls' = Append(calls, Invocation(op, raw, args, env))
    /\ ret' = result
    /\ UNCHANGED <<inner, builderVars>>

UniformInputs == {<<0, "Matrix4x4">>, <<1, "f32">>, <<0, "HugeArray">>}

push_vertex_uniform_data_size_of_ref ==
    \E in \in UniformInputs :
        LET slot_index == in[1]
            T == in[2]
        IN  /\ alive
            /\ Issue("push_vertex_uniform_data", CommandBuffer_raw, <<slot_index, T>>, NoEnv,
                     NativeCall("SDL_PushGPUVertexUniformData", CommandBuffer_raw,
                                <<slot_index, T, 8>>),
                     Unit)
            /\ UNCHANGED <<alive, lastError>>

push_vertex_uniform_data ==
    \E in \in UniformInputs :
        LET slot_index == in[1]
            T == in[2]
        IN  /\ alive
            /\ Issue("push_vertex_uniform_data", CommandBuffer_raw, <<slot_index, T>>, NoEnv,
                     NativeCall("SDL_PushGPUVertexUniformData", CommandBuffer_raw,
                                <<slot_index, T, AsU32(SizeOf(T))>>),
                     Unit)
            /\ UNCHANGED <<alive, lastError>>

push_fragment_uniform_data ==
    \E in \in UniformInputs :
        LET slot_index == in[1]
            T == in[2]
        IN  /\ alive
            /\ Issue("push_fragment_uniform_data", CommandBuffer_raw, <<slot_index, T>>, NoEnv,
                     NativeCall("SDL_PushGPUFragmentUniformData", CommandBuffer_raw,
                                <<slot_index, T, AsU32(SizeOf(T))>>),
                     Unit)
            /\ UNCHANGED <<alive, lastError>>

push_compute_uniform_data ==
    \E in \in UniformInputs :
        LET slot_index == in[1]
            T == in[2]
        IN  /\ alive
            /\ Issue("push_compute_uniform_data", CommandBuffer_raw, <<slot_index, T>>, NoEnv,
                     NativeCall("SDL_PushGPUComputeUniformData", CommandBuffer_raw,
                                <<slot_index, T, AsU32(SizeOf(T))>>),
                     Unit)
            /\ UNCHANGED <<alive, lastError>>

(* What the driver may answer to a swapchain acquisition: it fails and      *)
(* sets its error string, or it succeeds: with a frame ready, with no       *)
(* frame ready yet, or for a window that has no image to give (minimised).  *)
AcquireEnvs ==
    {[ok |-> TRUE, ready |-> TRUE, minimized |-> FALSE, err |-> ""],
     [ok |-> TRUE, ready |-> FALSE, minimized |-> FALSE, err |-> ""],
     [ok |-> TRUE, ready |-> FALSE, minimized |-> TRUE, err |-> ""]}
    \cup {[ok |-> FALSE, ready |-> FALSE, minimized |-> FALSE, err |-> m] : m \in ErrMsgs}

(* The extern acquisition call seen from the wrapper: the success flag and  *)
(* the out-parameters, which the wrapper initialises to null, 0, 0 and the  *)
(* driver fills in only when it has an image.  With no frame ready the      *)
(* non-blocking call succeeds and leaves the texture null; the blocking     *)
(* call waits for a frame.                                                  *)
NativeAcquire(blocking, env) ==
    IF ~env.ok THEN [success |-> FALSE, swapchain |-> NULL, width |-> 0, height |-> 0]
    ELSE IF ~env.minimized /\ (env.ready \/ blocking)
         THEN [success |-> TRUE, swapchain |-> CHOOSE t \in SwapchainTextures : TRUE,
               width |-> 640, height |-> 480]
         ELSE [success |-> TRUE, swapchain |-> NULL, width |-> 0, height |-> 0]

Texture_new_sdl_managed(raw, width, height) ==
    [raw |-> raw, width |-> width, height |-> height]

(* get_error() after a native call answered as env. *)
ErrorAfter(env) == IF env.ok THEN lastError ELSE env.err

wait_and_acquire_swapchain_texture ==
    \E w \in Windows, env \in AcquireEnvs :
        LET out == NativeAcquire(TRUE, env)
        IN  /\ alive
            /\ lastError' = ErrorAfter(env)
            /\ Issue("wait_and_acquire_swapchain_texture", inner, <<w>>, env,
                     NativeCall("SDL_WaitAndAcquireGPUSwapchainTexture", inner, <<w>>),
                     IF out.success
                     THEN Ok(Texture_new_sdl_managed(out.swapchain, out.width, out.height))
                     ELSE Err(lastError'))
            /\ UNCHANGED alive

acquire_swapchain_texture_retrying ==
    \E w \in Windows, env \in AcquireEnvs :
        LET out == NativeAcquire(FALSE, env)
            c == NativeCall("SDL_AcquireGPUSwapchainTexture", inner, <<w>>)
        IN  /\ alive
            /\ Len(log) + 1 < MaxLog
            /\ lastError' = ErrorAfter(env)
            /\ log' = IF out.success THEN Append(log, c) ELSE log \o <<c, c>>
            /\ calls' = Append(calls, Invocation("acquire_swapchain_texture", inner, <<w>>, env))
            /\ ret' = IF out.success
                      THEN Ok(Texture_new_sdl_managed(out.swapchain, out.width, out.height))
                      ELSE Err(lastError')
            /\ UNCHANGED <<alive, inner, builderVars>>

acquire_swapchain_texture ==
    \E w \in Windows, env \in AcquireEnvs :
        LET out == NativeAcquire(FALSE, env)
        IN  /\ alive
            /\ lastError' = ErrorAfter(env)
            /\ Issue("acquire_swapchain_texture", inner, <<w>>, env,
                     NativeCall("SDL_AcquireGPUSwapchainTexture", inner, <<w>>),
                     IF out.success
                     THEN Ok(Texture_new_sdl_managed(out.swapchain, out.width, out.height))
                     ELSE Err(lastError'))
            /\ UNCHANGED alive

SampleBlitInfos == {BlitInfo_default, BlitInfo_with_cycle(BlitInfo_default, TRUE)}

blit_texture ==
    \E blit_info \in SampleBlitInfos :
        /\ alive
        /\ Issue("blit_texture", inner, <<blit_info>>, NoEnv,
                 NativeCall("SDL_BlitGPUTexture", inner, <<blit_info>>),
                 Unit)
        /\ UNCHANGED <<alive, lastError>>

SubmitEnvs == {[ok |-> TRUE, err |-> ""]} \cup {[ok |-> FALSE, err |-> m] : m \in ErrMsgs}

submit_borrowing ==
    \E env \in SubmitEnvs :
        /\ alive
        /\ lastError' = ErrorAfter(env)
        /\ Issue("submit", inner, <<>>, env,
                 NativeCall("SDL_SubmitGPUCommandBuffer", inner, <<>>),
                 IF env.ok THEN Ok(<<>>) ELSE Err(lastError'))
        /\ UNCHANGED alive

submit ==
    \E env \in SubmitEnvs :
        /\ alive
        /\ alive' = FALSE
        /\ lastError' = ErrorAfter(env)
        /\ Issue("submit", inner, <<>>, env,
                 NativeCall("SDL_SubmitGPUCommandBuffer", inner, <<>>),
                 IF env.ok THEN Ok(<<>>) ELSE Err(lastError'))

cancel_clearing_handle ==
    /\ alive
    /\ CanRecord
    /\ log' = Append(log, NativeCall("SDL_CancelGPUCommandBuffer", inner, <<>>))
    /\ calls' = Append(calls, Invocation("cancel", inner, <<>>, NoEnv))
    /\ ret' = Unit
    /\ inner' = NULL
    /\ UNCHANGED <<alive, lastError, builderVars>>

cancel_consuming ==
    /\ alive
    /\ alive' = FALSE
    /\ Issue("cancel", inner, <<>>, NoEnv,
             NativeCall("SDL_CancelGPUCommandBuffer", inner, <<>>),
             Unit)
    /\ UNCHANGED lastError

cancel ==
    /\ alive
    /\ Issue("cancel", inner, <<>>, NoEnv,
             NativeCall("SDL_CancelGPUCommandBuffer", inner, <<>>),
             Unit)
    /\ UNCHANGED <<alive, lastError>>

-----------------------------------------------------------------------------
(* RenderPass, CopyPass, ComputePass: handles obtained elsewhere; nothing   *)
(* ties their use to the command buffer's lifetime in this file.            *)

RenderPass_raw == RenderPassHandle

Pipelines == {"pipeline0"}

BindingSlices == {Slice("bindings", n) : n \in UsizeSamples}

IndexElementSizeValue(v) == CASE v = "_16Bit" -> 0 [] v = "_32Bit" -> 1

bind_graphics_pipeline ==
    \E pipeline \in Pipelines :
        /\ Issue("bind_graphics_pipeline", RenderPassHandle, <<pipeline>>, NoEnv,
                 NativeCall("SDL_BindGPUGraphicsPipeline", RenderPassHandle, <<pipeline>>),
                 Unit)
        /\ UNCHANGED <<alive, lastError>>

bind_vertex_buffers_skipping_empty ==
    \E first_slot \in {0}, bindings \in BindingSlices :
        /\ CanRecord
        /\ log' = IF bindings.len = Usize(0, 0) THEN log
                  ELSE Append(log, NativeCall("SDL_BindGPUVertexBuffers", RenderPass_raw,
                                              <<first_slot, bindings.ptr, AsU32(bindings.len)>>))
        /\ calls' = Append(calls, Invocation("bind_vertex_buffers", RenderPass_raw,
                                             <<first_slot, bindings>>, NoEnv))
        /\ ret' = Unit
        /\ UNCHANGED <<alive, inner, lastError, builderVars>>

bind_vertex_buffers ==
    \E first_slot \in {0}, bindings \in BindingSlices :
        /\ Issue("bind_vertex_buffers", RenderPass_raw, <<first_slot, bindings>>, NoEnv,
                 NativeCall("SDL_BindGPUVertexBuffers", RenderPass_raw,
                            <<first_slot, bindings.ptr, AsU32(bindings.len)>>),
                 Unit)
        /\ UNCHANGED <<alive, lastError>>

bind_index_buffer ==
    \E binding \in {"binding0"}, index_element_size \in {"_16Bit", "_32Bit"} :
        /\ Issue("bind_index_buffer", RenderPass_raw, <<binding, index_element_size>>, NoEnv,
                 NativeCall("SDL_BindGPUIndexBuffer", RenderPass_raw,
                            <<binding, IndexElementSizeValue(index_element_size)>>),
                 Unit)
        /\ UNCHANGED <<alive, lastError>>

bind_fragment_sampler ==
    \E first_slot \in {1}, bindings \in BindingSlices :
        /\ Issue("bind_fragment_sampler", RenderPass_raw, <<first_slot, bindings>>, NoEnv,
                 NativeCall("SDL_BindGPUFragmentSamplers", RenderPass_raw,
                            <<first_slot, bindings.ptr, AsU32(bindings.len)>>),
                 Unit)
        /\ UNCHANGED <<alive, lastError>>

DrawIndexedInputs == {<<6, 1, 0, 0, 0>>, <<3, 2, 1, -1, 4>>}

draw_indexed_primitives ==
    \E a \in DrawIndexedInputs :
        LET num_indices == a[1]
            num_instances == a[2]
            first_index == a[3]
            vertex_offset == a[4]
            first_instance == a[5]
        IN  /\ Issue("draw_indexed_primitives", RenderPass_raw, a, NoEnv,
                      NativeCall("SDL_DrawGPUIndexedPrimitives", RenderPass_raw,
                                 <<num_indices, num_instances, first_index, vertex_offset,
                                   first_instance>>),
                     Unit)
            /\ UNCHANGED <<alive, lastError>>

DrawInputs ==
    {<<Usize(0, 3), Usize(0, 1), Usize(0, 0), Usize(0, 0)>>,
     <<Usize(1, 3), Usize(0, 1), Usize(0, 0), Usize(0, 0)>>,
     <<Usize(0, 3), Usize(2, 0), Usize(0, 5), Usize(0, 7)>>,
     <<Usize(0, 4), Usize(0, 2), Usize(1, 5), Usize(1, 7)>>}

draw_primitives_swapped ==
    \E a \in DrawInputs :
        LET num_vertices == a[1]
            num_instances == a[2]
            first_vertex == a[3]
            first_instance == a[4]
        IN  /\ Issue("draw_primitives", RenderPassHandle, a, NoEnv,
                     NativeCall("SDL_DrawGPUPrimitives", RenderPassHandle,
                                <<AsU32(num_vertices), AsU32(first_vertex),
                                  AsU32(num_instances), AsU32(first_instance)>>),
                     Unit)
            /\ UNCHANGED <<alive, lastError>>

draw_primitives ==
    \E a \in DrawInputs :
        LET num_vertices == a[1]
            num_instances == a[2]
            first_vertex == a[3]
            first_instance == a[4]
        IN  /\ Issue("draw_primitives", RenderPassHandle, a, NoEnv,
                     NativeCall("SDL_DrawGPUPrimitives", RenderPassHandle,
                                <<AsU32(num_vertices), AsU32(num_instances),
                                  AsU32(first_vertex), AsU32(first_instance)>>),
                     Unit)
            /\ UNCHANGED <<alive, lastError>>

CopyPass_raw == CopyPassHandle

upload_to_gpu_buffer ==
    \E transfer_buf_location \in {"transfer_loc0"}, buffer_region \in {"buffer_region0"},
       cycle \in BOOLEAN :
        /\ Issue("upload_to_gpu_buffer", CopyPass_raw,
                 <<transfer_buf_location, buffer_region, cycle>>, NoEnv,
                 NativeCall("SDL_UploadToGPUBuffer", CopyPass_raw,
                            <<transfer_buf_location, buffer_region, cycle>>),
                 Unit)
        /\ UNCHANGED <<alive, lastError>>

upload_to_gpu_texture ==
    \E source \in {"transfer_info0"}, destination \in {"texture_region0"},
       cycle \in BOOLEAN :
        /\ Issue("upload_to_gpu_texture", CopyPass_raw, <<source, destination, cycle>>, NoEnv,
                 NativeCall("SDL_UploadToGPUTexture", CopyPass_raw,
                            <<source, destination, cycle>>),
                 Unit)
        /\ UNCHANGED <<alive, lastError>>

bind_compute_pipeline ==
    \E pipeline \in {"compute_pipeline0"} :
        /\ Issue("bind_compute_pipeline", ComputePassHandle, <<pipeline>>, NoEnv,
                 NativeCall("SDL_BindGPUComputePipeline", ComputePassHandle, <<pipeline>>),
                 Unit)
        /\ UNCHANGED <<alive, lastError>>

(* storage_buffers.iter().map(|x| x.raw()).collect::<Vec<_>>(): a vector of *)
(* the same length as the slice.                                            *)
CollectRaw(slice, name) == Slice(name, slice.len)

bind_compute_storage_buffers ==
    \E first_slot \in {0}, storage_buffers \in {Slice("buffers", n) : n \in UsizeSamples} :
        LET buffer_handles == CollectRaw(storage_buffers, "buffer_handles")
        IN  /\ Issue("bind_compute_storage_buffers", ComputePassHandle,
                     <<first_slot, storage_buffers>>, NoEnv,
                     NativeCall("SDL_BindGPUComputeStorageBuffers", ComputePassHandle,
                                <<first_slot, buffer_handles.ptr,
                                  AsU32(buffer_handles.len)>>),
                     Unit)
            /\ UNCHANGED <<alive, lastError>>

bind_compute_storage_textures ==
    \E first_slot \in {0}, storage_textures \in {Slice("textures", n) : n \in UsizeSamples} :
        LET texture_handles == CollectRaw(storage_textures, "texture_handles")
        IN  /\ Issue("bind_compute_storage_textures", ComputePassHandle,
                     <<first_slot, storage_textures>>, NoEnv,
                     NativeCall("SDL_BindGPUComputeStorageTextures", ComputePassHandle,
                                <<first_slot, texture_handles.ptr,
                                  AsU32(texture_handles.len)>>),
                     Unit)
            /\ UNCHANGED <<alive, lastError>>

dispatch ==
    \E g \in {<<1, 1, 1>>, <<8, 4, 2>>} :
        LET groupcount_x == g[1]
            groupcount_y == g[2]
            groupcount_z == g[3]
        IN  /\ Issue("dispatch", ComputePassHandle, g, NoEnv,
                      NativeCall("SDL_DispatchGPUCompute", ComputePassHandle,
                                 <<groupcount_x, groupcount_y, groupcount_z>>),
                     Unit)
            /\ UNCHANGED <<alive, lastError>>

-----------------------------------------------------------------------------
(* Specifications. *)

Init ==
    /\ InitCmd
    /\ kind = "BlitInfo"
    /\ b = BlitInfo_default
    /\ chain = <<>>

(* Recording on a command buffer, with a draw in a render pass. *)
Next ==
    \/ push_vertex_uniform_data
    \/ push_fragment_uniform_data
    \/ push_compute_uniform_data
    \/ wait_and_acquire_swapchain_texture
    \/ acquire_swapchain_texture
    \/ blit_texture
    \/ submit
    \/ cancel
    \/ draw_indexed_primitives

Spec == Init /\ [][Next]_vars

(* Recording in the passes. *)
NextPass ==
    \/ bind_graphics_pipeline
    \/ bind_vertex_buffers
    \/ bind_index_buffer
    \/ bind_fragment_sampler
    \/ draw_indexed_primitives
    \/ draw_primitives
    \/ upload_to_gpu_buffer
    \/ upload_to_gpu_texture
    \/ bind_compute_pipeline
    \/ bind_compute_storage_buffers
    \/ bind_compute_storage_textures
    \/ dispatch

SpecPass == Init /\ [][NextPass]_vars

(* Every operation on every handle, over shorter histories. *)
Short == Len(log) < MaxLogAll

NextAll ==
    \/ Short /\ push_vertex_uniform_data
    \/ Short /\ push_fragment_uniform_data
    \/ Short /\ push_compute_uniform_data
    \/ Short /\ wait_and_acquire_swapchain_texture
    \/ Short /\ acquire_swapchain_texture
    \/ Short /\ blit_texture
    \/ Short /\ submit
    \/ Short /\ cancel
    \/ Short /\ bind_graphics_pipeline
    \/ Short /\ bind_vertex_buffers
    \/ Short /\ bind_index_buffer
    \/ Short /\ bind_fragment_sampler
    \/ Short /\ draw_indexed_primitives
    \/ Short /\ draw_primitives
    \/ Short /\ upload_to_gpu_buffer
    \/ Short /\ upload_to_gpu_texture
    \/ Short /\ bind_compute_pipeline
    \/ Short /\ bind_compute_storage_buffers
    \/ Short /\ bind_compute_storage_textures
    \/ Short /\ dispatch

SpecAll == Init /\ [][NextAll]_vars

-----------------------------------------------------------------------------
(* Properties of the recorded native calls. *)

DrawOps == {"draw_indexed_primitives", "draw_primitives"}

DrawFn(op) ==
    IF op = "draw_indexed_primitives" THEN "SDL_DrawGPUIndexedPrimitives"
    ELSE "SDL_DrawGPUPrimitives"

IsCall(c, fn, h) == c.fn = fn /\ c.h = h

(* C1 as stated: binding N vertex buffers and then drawing, on a fresh      *)
(* log, records exactly N bind operations followed by exactly one draw.     *)
C1_NBindCallsThenOneDraw ==
    (/\ Len(calls) = 2
     /\ calls[1].op = "bind_vertex_buffers"
     /\ calls[2].op \in DrawOps
     /\ FitsU32(calls[1].args[2].len))
        => LET N == calls[1].args[2].len.lo
           IN  /\ Len(log) = N + 1
               /\ \A j \in 1 .. N : log[j].fn = "SDL_BindGPUVertexBuffers"
               /\ log[N + 1].fn = DrawFn(calls[2].op)

(* C1, amended: bind_vertex_buffers with N bindings followed by a draw      *)
(* records exactly one native SDL_BindGPUVertexBuffers call, carrying       *)
(* first_slot, the slice pointer and the count N modulo 2^32, followed by   *)
(* exactly one draw call, in that order: every wrapper invocation has       *)
(* issued exactly one native call, at its own position in the log.          *)
C1_OneBindCallThenOneDraw ==
    /\ Len(log) = Len(calls)
    /\ \A i \in 1 .. Len(calls) - 1 :
           (calls[i].op = "bind_vertex_buffers" /\ calls[i + 1].op \in DrawOps)
               => /\ IsCall(log[i], "SDL_BindGPUVertexBuffers", RenderPassHandle)
                  /\ log[i].args = <<calls[i].args[1], calls[i].args[2].ptr,
                                     calls[i].args[2].len.lo>>
                  /\ IsCall(log[i + 1], DrawFn(calls[i + 1].op), RenderPassHandle)

(* Two bindings bound, then a draw: two native calls. *)
C1_Witness ==
    /\ Len(calls) = 2
    /\ calls[1].op = "bind_vertex_buffers"
    /\ calls[1].args[2].len = Usize(0, 2)
    /\ calls[2].op = "draw_primitives"
    /\ Len(log) = 2

PushOps ==
    {"push_vertex_uniform_data", "push_fragment_uniform_data", "push_compute_uniform_data"}

PushFn(op) ==
    CASE op = "push_vertex_uniform_data" -> "SDL_PushGPUVertexUniformData"
      [] op = "push_fragment_uniform_data" -> "SDL_PushGPUFragmentUniformData"
      [] op = "push_compute_uniform_data" -> "SDL_PushGPUComputeUniformData"

PushThenDrawRecorded(i) ==
    (/\ i < Len(calls)
     /\ calls[i].op \in PushOps
     /\ calls[i + 1].op = "draw_indexed_primitives")
        => /\ IsCall(log[i + 1], "SDL_DrawGPUIndexedPrimitives", RenderPassHandle)
           /\ log[i + 1].args = calls[i + 1].args

(* C2 as stated: every uniform push records one native push call with the   *)
(* slot unchanged and a byte length equal to the size of T, and a push      *)
(* followed by draw_indexed_primitives records the push and then the draw   *)
(* with its arguments unchanged.                                            *)
C2_PushLengthIsSizeOfT ==
    /\ Len(log) = Len(calls)
    /\ \A i \in 1 .. Len(calls) :
           /\ calls[i].op \in PushOps
                  => /\ IsCall(log[i], PushFn(calls[i].op), calls[i].raw)
                     /\ log[i].args[1] = calls[i].args[1]
                     /\ Usize(0, log[i].args[3]) = SizeOf(calls[i].args[2])
           /\ PushThenDrawRecorded(i)

(* C2, amended: every uniform push records exactly one native push call     *)
(* carrying the slot unchanged, the data pointer, and a byte length equal   *)
(* to size_of::<T>() modulo 2^32 (64 for a 4x4 float matrix); a push        *)
(* followed by draw_indexed_primitives records exactly two native calls,    *)
(* the push first and the draw second with its five arguments unchanged.    *)
C2_PushRecordsSlotAndSize ==
    /\ Len(log) = Len(calls)
    /\ \A i \in 1 .. Len(calls) :
           /\ calls[i].op \in PushOps
                  => /\ IsCall(log[i], PushFn(calls[i].op), calls[i].raw)
                     /\ log[i].args[1] = calls[i].args[1]
                     /\ log[i].args[2] = calls[i].args[2]
                     /\ log[i].args[3] = SizeOf(calls[i].args[2]).lo
                     /\ (calls[i].args[2] = "Matrix4x4" => log[i].args[3] = 64)
           /\ PushThenDrawRecorded(i)

(* The scenario of the specification. *)
C2_Witness ==
    /\ Len(calls) = 2
    /\ calls[1].op = "push_vertex_uniform_data"
    /\ calls[1].args = <<0, "Matrix4x4">>
    /\ calls[2].op = "draw_indexed_primitives"
    /\ calls[2].args = <<6, 1, 0, 0, 0>>
    /\ Len(log) = 2
    /\ log[1].args[3] = 64

Submitted(i) == i \in 1 .. Len(log) /\ log[i].fn = "SDL_SubmitGPUCommandBuffer"

Cancelled(i) == i \in 1 .. Len(log) /\ log[i].fn = "SDL_CancelGPUCommandBuffer"

(* C3: once submit has been called on the command buffer, whether it        *)
(* returned Ok or Err, the buffer is no longer owned by the caller and no   *)
(* later native call is issued on its handle.                               *)
C3_NothingAfterSubmit ==
    \A i \in 1 .. Len(log) :
        Submitted(i)
            => /\ ~alive
               /\ \A j \in (i + 1) .. Len(log) : log[j].h # log[i].h

(* A failed submit, after which recording went on elsewhere. *)
C3_Witness ==
    \E i \in 1 .. Len(log) :
        /\ Submitted(i)
        /\ ~calls[i].env.ok
        /\ i < Len(log)

(* C4 as stated: over its lifetime the command buffer's handle receives at  *)
(* most one terminating call, a submit or a cancel, and no call after a     *)
(* cancel.                                                                  *)
C4_OneTerminatingCall ==
    /\ Cardinality({i \in 1 .. Len(log) : Submitted(i) \/ Cancelled(i)}) <= 1
    /\ \A i \in 1 .. Len(log) :
           Cancelled(i) => \A j \in (i + 1) .. Len(log) : log[j].h # log[i].h

(* C4, amended: only submit terminates a command buffer.  Its handle        *)
(* receives at most one submit; cancel does not end the buffer's lifetime:  *)
(* the caller owns the buffer exactly as long as no submit was issued, so   *)
(* recording calls, further cancels and one submit may follow a cancel.     *)
C4_OnlySubmitTerminates ==
    /\ Cardinality({i \in 1 .. Len(log) : Submitted(i)}) <= 1
    /\ alive <=> ~\E i \in 1 .. Len(log) : Submitted(i)

(* A cancel, then a recording call, then a submit, all on one handle. *)
C4_Witness ==
    /\ Len(log) = 3
    /\ Cancelled(1)
    /\ log[2].fn = "SDL_PushGPUVertexUniformData"
    /\ Submitted(3)
    /\ log[1].h = log[2].h /\ log[2].h = log[3].h

(* The commands the native command buffer holds: those issued on its        *)
(* handle since it was last cancelled.                                      *)
NativeRecorded ==
    LET last == {i \in 1 .. Len(log) : Cancelled(i)}
        from == IF last = {} THEN 1 ELSE 1 + CHOOSE i \in last : \A j \in last : j <= i
    IN  SelectSeq(SubSeq(log, from, Len(log)), LAMBDA c : c.h = inner)

(* C5: after cancel() the CommandBuffer is still owned by the caller, with  *)
(* the native handle it had before the call, every method of it may still   *)
(* be called, and the native buffer holds none of the commands recorded     *)
(* before the cancel.                                                       *)
C5_CancelKeepsBuffer ==
    (calls # <<>> /\ calls[Len(calls)].op = "cancel")
        => /\ alive
           /\ CommandBuffer_raw = calls[Len(calls)].raw
           /\ NativeRecorded = <<>>
           /\ CanRecord
                  => /\ ENABLED push_vertex_uniform_data
                     /\ ENABLED push_fragment_uniform_data
                     /\ ENABLED push_compute_uniform_data
                     /\ ENABLED wait_and_acquire_swapchain_texture
                     /\ ENABLED acquire_swapchain_texture
                     /\ ENABLED blit_texture
                     /\ ENABLED submit
                     /\ ENABLED cancel

(* Commands were recorded, then cancelled, and more can be recorded. *)
C5_Witness ==
    /\ Len(calls) = 2
    /\ calls[1].op = "blit_texture"
    /\ calls[2].op = "cancel"
    /\ CanRecord

FallibleOps ==
    {"wait_and_acquire_swapchain_texture", "acquire_swapchain_texture", "submit"}

FallibleFn(op) ==
    CASE op = "wait_and_acquire_swapchain_texture" -> "SDL_WaitAndAcquireGPUSwapchainTexture"
      [] op = "acquire_swapchain_texture" -> "SDL_AcquireGPUSwapchainTexture"
      [] op = "submit" -> "SDL_SubmitGPUCommandBuffer"

(* C6: each swapchain acquisition and each submit makes exactly one native  *)
(* call, returns Ok exactly when that call reported success and Err with    *)
(* the driver's error message exactly when it reported failure; every       *)
(* other operation returns nothing.                                         *)
C6_OneCallResultFollowsDriver ==
    /\ Len(log) = Len(calls)
    /\ \A i \in 1 .. Len(calls) :
           calls[i].op \in FallibleOps
               => IsCall(log[i], FallibleFn(calls[i].op), calls[i].raw)
    /\ calls # <<>>
           => LET c == calls[Len(calls)]
              IN  IF c.op \in FallibleOps
                  THEN /\ ret.kind \in {"Ok", "Err"}
                       /\ ret.kind = "Ok" <=> c.env.ok
                       /\ ret.kind = "Err" => (ret.val = c.env.err /\ ret.val = lastError)
                  ELSE ret = Unit

(* A pass operation returned nothing, then the driver refused an
   acquisition and the caller got its message. *)
C6_Witness ==
    /\ Len(calls) = 2
    /\ Len(log) = 2
    /\ calls[1].op = "dispatch"
    /\ calls[2].op = "acquire_swapchain_texture"
    /\ ~calls[2].env.ok /\ calls[2].env.err = "invalid window"
    /\ ret = Err("invalid window")

(* C7: with no frame ready the non-blocking acquire_swapchain_texture       *)
(* returns Err, never Ok holding a null texture.                            *)
C7_NoFrameIsAnError ==
    calls # <<>>
        => LET c == calls[Len(calls)]
           IN  (c.op = "acquire_swapchain_texture" /\ c.env.ok /\ ~c.env.ready
                /\ ~c.env.minimized)
                   => (ret.kind = "Err" /\ ~(ret.kind = "Ok" /\ ret.val.raw = NULL))

BinderOps ==
    {"bind_vertex_buffers", "bind_fragment_sampler", "bind_compute_storage_buffers",
     "bind_compute_storage_textures"}

(* C10: draw_primitives passes each of its four usize arguments reduced     *)
(* modulo 2^32, so the native call receives the caller's count exactly      *)
(* when it is below 2^32; the binders pass the slice length modulo 2^32.    *)
C10_CountsTruncatedToU32 ==
    /\ Len(log) = Len(calls)
    /\ \A i \in 1 .. Len(calls) :
           /\ calls[i].op = "draw_primitives"
                  => /\ IsCall(log[i], "SDL_DrawGPUPrimitives", RenderPassHandle)
                     /\ \A k \in 1 .. 4 :
                            /\ log[i].args[k] = calls[i].args[k].lo
                            /\ (Usize(0, log[i].args[k]) = calls[i].args[k])
                                   <=> calls[i].args[k].hi = 0
           /\ calls[i].op \in BinderOps
                  => /\ log[i].args[1] = calls[i].args[1]
                     /\ log[i].args[3] = calls[i].args[2].len.lo

(* A draw of 2^32 + 3 vertices reaches the driver as a draw of 3. *)
C10_Witness ==
    \E i \in 1 .. Len(calls) :
        /\ calls[i].op = "draw_primitives"
        /\ calls[i].args[1] = Usize(1, 3)
        /\ log[i].args[1] = 3

=============================================================================
